---- MODULE Spec2Model ----
(***************************************************************************)
(* Model of minimaxgato.py: the board evaluator (available_moves,          *)
(* check_winner), the minimax search (minimax, best_move) and the          *)
(* TicTacToeGame event loop.                                               *)
(*                                                                         *)
(* A board is a function 0..8 -> {" ", "X", "O"}: the Python list, with    *)
(* Python's indices.  The search writes into the caller's list, so minimax *)
(* and best_move are operators that take the list and give it back as the  *)
(* call leaves it, next to the value returned.                             *)
(***************************************************************************)
EXTENDS Integers, Sequences, FiniteSets, TLC

Cells == 0..8

Symbols == {"X", "O"}

Marks == {" ", "X", "O"}

\* Python's None where the other values are strings (check_winner's result,
\* winner, hu_player, ai_player)
None == "None"

\* Python's None for move_choice, whose other values are cell indices
NoMove == -1

\* math.inf: an integer beyond every score the search computes
INF == 1000

EmptyBoard == [i \in Cells |-> " "]

WIN_COMBINATIONS ==
    << <<0,1,2>>, <<3,4,5>>, <<6,7,8>>,
       <<0,3,6>>, <<1,4,7>>, <<2,5,8>>,
       <<0,4,8>>, <<2,4,6>> >>

Other(p) == IF p = "X" THEN "O" ELSE "X"

----------------------------------------------------------------------------
(* Board / outcome evaluator *)

\* mutant of available_moves: the cells are listed from the last to the
\* first
available_moves_descending(board) ==
    SelectSeq(<<8,7,6,5,4,3,2,1,0>>, LAMBDA i : board[i] = " ")

\* [i for i, c in enumerate(board) if c == ' ']
available_moves(board) ==
    SelectSeq(<<0,1,2,3,4,5,6,7,8>>, LAMBDA i : board[i] = " ")

\* board[a] == board[b] == board[c] and board[a] != ' '
Line(board, a, b, c) ==
    board[a] # " " /\ board[a] = board[b] /\ board[b] = board[c]

\* mutant of check_winner: the two diagonals are missing from the
\* combinations
check_winner_no_diagonals(board) ==
    IF Line(board, 0, 1, 2) THEN board[0]
    ELSE IF Line(board, 3, 4, 5) THEN board[3]
    ELSE IF Line(board, 6, 7, 8) THEN board[6]
    ELSE IF Line(board, 0, 3, 6) THEN board[0]
    ELSE IF Line(board, 1, 4, 7) THEN board[1]
    ELSE IF Line(board, 2, 5, 8) THEN board[2]
    ELSE IF \A i \in Cells : board[i] # " " THEN "Tie"
    ELSE None

\* mutant of check_winner: the combinations are tested from the last one
\* to the first
check_winner_reversed(board) ==
    IF Line(board, 2, 4, 6) THEN board[2]
    ELSE IF Line(board, 0, 4, 8) THEN board[0]
    ELSE IF Line(board, 2, 5, 8) THEN board[2]
    ELSE IF Line(board, 1, 4, 7) THEN board[1]
    ELSE IF Line(board, 0, 3, 6) THEN board[0]
    ELSE IF Line(board, 6, 7, 8) THEN board[6]
    ELSE IF Line(board, 3, 4, 5) THEN board[3]
    ELSE IF Line(board, 0, 1, 2) THEN board[0]
    ELSE IF \A i \in Cells : board[i] # " " THEN "Tie"
    ELSE None

\* the loop over WIN_COMBINATIONS, one test per combination in the list's
\* order, then the ' ' not in board test
check_winner(board) ==
    IF Line(board, 0, 1, 2) THEN board[0]
    ELSE IF Line(board, 3, 4, 5) THEN board[3]
    ELSE IF Line(board, 6, 7, 8) THEN board[6]
    ELSE IF Line(board, 0, 3, 6) THEN board[0]
    ELSE IF Line(board, 1, 4, 7) THEN board[1]
    ELSE IF Line(board, 2, 5, 8) THEN board[2]
    ELSE IF Line(board, 0, 4, 8) THEN board[0]
    ELSE IF Line(board, 2, 4, 6) THEN board[2]
    ELSE IF \A i \in Cells : board[i] # " " THEN "Tie"
    ELSE None

----------------------------------------------------------------------------
(* Minimax search.  A minimax call gives back a record:                    *)
(*   score  the value returned                                             *)
(*   board  the caller's list as the call leaves it                        *)
(*   nodes  the number of minimax invocations made, this one included      *)
(*   lo, hi the least and the greatest value returned by any of them       *)
(* The loops carry the list and the three counts in a record s: after the  *)
(* call r for moves[k] has returned, the list is r.board with the move     *)
(* undone and the counts are joined with r's.                              *)

Min2(a, b) == IF a < b THEN a ELSE b

Max2(a, b) == IF a > b THEN a ELSE b

\* mutant of win_score: the depth is added
win_score_plus(depth) == 10 + depth

\* mutant of win_score: no depth adjustment
win_score_flat(depth) == 10

\* score = 10 - depth
win_score(depth) == 10 - depth

\* mutant of lose_score: no depth adjustment
lose_score_flat(depth) == -10

\* score = depth - 10
lose_score(depth) == depth - 10

\* board[move] = ai_player / board[move] = hu_player
place(board, move, player) == [board EXCEPT ![move] = player]

\* mutant of undo: the mark is left on the board
undo_skipped(board, move) == board

\* board[move] = ' ' after the recursive call
undo(board, move) == [board EXCEPT ![move] = " "]

\* mutant of max_improves: the comparison of the minimizing level
max_improves_lt(score, best_score) == score < best_score

\* if score > best_score (maximizing level)
max_improves(score, best_score) == score > best_score

\* mutant of min_improves: the comparison of the maximizing level
min_improves_gt(score, best_score) == score > best_score

\* if score < best_score (minimizing level)
min_improves(score, best_score) == score < best_score

\* mutant of root_improves: an equal score replaces the choice
root_improves_ge(score, best_score) == score >= best_score

\* if score > best_score (best_move)
root_improves(score, best_score) == score > best_score

\* a return of a terminal node
Leaf(score, board) ==
    [score |-> score, board |-> board, nodes |-> 1, lo |-> score, hi |-> score]

\* the loop's record before the first move
Start(board) == [board |-> board, nodes |-> 0, lo |-> INF, hi |-> -INF]

RECURSIVE minimax(_, _, _, _, _)
RECURSIVE minimax_max_loop(_, _, _, _, _, _, _)
RECURSIVE minimax_min_loop(_, _, _, _, _, _, _)

\* for i, move in enumerate(moves), maximizing level, from the k-th move on
minimax_max_loop(s, moves, k, best_score, depth, ai_player, hu_player) ==
    IF k > Len(moves)
    THEN [score |-> best_score, board |-> s.board, nodes |-> s.nodes + 1,
          lo |-> Min2(s.lo, best_score), hi |-> Max2(s.hi, best_score)]
    ELSE LET r == minimax(place(s.board, moves[k], ai_player), depth + 1,
                          FALSE, ai_player, hu_player)
         IN  IF max_improves(r.score, best_score)
             THEN minimax_max_loop(
                      [board |-> undo(r.board, moves[k]),
                       nodes |-> s.nodes + r.nodes,
                       lo |-> Min2(s.lo, r.lo), hi |-> Max2(s.hi, r.hi)],
                      moves, k + 1, r.score, depth, ai_player, hu_player)
             ELSE minimax_max_loop(
                      [board |-> undo(r.board, moves[k]),
                       nodes |-> s.nodes + r.nodes,
                       lo |-> Min2(s.lo, r.lo), hi |-> Max2(s.hi, r.hi)],
                      moves, k + 1, best_score, depth, ai_player, hu_player)

\* for i, move in enumerate(moves), minimizing level, from the k-th move on
minimax_min_loop(s, moves, k, best_score, depth, ai_player, hu_player) ==
    IF k > Len(moves)
    THEN [score |-> best_score, board |-> s.board, nodes |-> s.nodes + 1,
          lo |-> Min2(s.lo, best_score), hi |-> Max2(s.hi, best_score)]
    ELSE LET r == minimax(place(s.board, moves[k], hu_player), depth + 1,
                          TRUE, ai_player, hu_player)
         IN  IF min_improves(r.score, best_score)
             THEN minimax_min_loop(
                      [board |-> undo(r.board, moves[k]),
                       nodes |-> s.nodes + r.nodes,
                       lo |-> Min2(s.lo, r.lo), hi |-> Max2(s.hi, r.hi)],
                      moves, k + 1, r.score, depth, ai_player, hu_player)
             ELSE minimax_min_loop(
                      [board |-> undo(r.board, moves[k]),
                       nodes |-> s.nodes + r.nodes,
                       lo |-> Min2(s.lo, r.lo), hi |-> Max2(s.hi, r.hi)],
                      moves, k + 1, best_score, depth, ai_player, hu_player)

minimax(board, depth, is_maximizing, ai_player, hu_player) ==
    LET winner == check_winner(board) IN
    IF winner = ai_player THEN Leaf(win_score(depth), board)
    ELSE IF winner = hu_player THEN Leaf(lose_score(depth), board)
    ELSE IF winner = "Tie" THEN Leaf(0, board)
    ELSE IF is_maximizing
         THEN minimax_max_loop(Start(board), available_moves(board), 1, -INF,
                               depth, ai_player, hu_player)
         ELSE minimax_min_loop(Start(board), available_moves(board), 1, INF,
                               depth, ai_player, hu_player)

\* What a best_move call gives back:
\*   move_choice, best_score  the locals at line 163
\*   board                    the caller's list as the call leaves it
\*   nodes, lo, hi            as for minimax, over all the calls it made
\*   error                    "TypeError" when line 163 raises (move_choice+1
\*                            with move_choice None), "none" when the call
\*                            returns move_choice
Decision(move_choice, best_score, s) ==
    [move_choice |-> move_choice, best_score |-> best_score,
     board |-> s.board, nodes |-> s.nodes, lo |-> s.lo, hi |-> s.hi,
     error |-> IF move_choice = NoMove THEN "TypeError" ELSE "none"]

\* for move in moves (best_move), from the k-th move on
RECURSIVE best_move_loop(_, _, _, _, _, _, _)
best_move_loop(s, moves, k, best_score, move_choice, ai_player, hu_player) ==
    IF k > Len(moves)
    THEN Decision(move_choice, best_score, s)
    ELSE LET r == minimax(place(s.board, moves[k], ai_player), 0, FALSE,
                          ai_player, hu_player)
         IN  IF root_improves(r.score, best_score)
             THEN best_move_loop(
                      [board |-> undo(r.board, moves[k]),
                       nodes |-> s.nodes + r.nodes,
                       lo |-> Min2(s.lo, r.lo), hi |-> Max2(s.hi, r.hi)],
                      moves, k + 1, r.score, moves[k], ai_player, hu_player)
             ELSE best_move_loop(
                      [board |-> undo(r.board, moves[k]),
                       nodes |-> s.nodes + r.nodes,
                       lo |-> Min2(s.lo, r.lo), hi |-> Max2(s.hi, r.hi)],
                      moves, k + 1, best_score, move_choice, ai_player, hu_player)

\* mutant of best_move: best_score starts at 0
best_move_from_zero(board, ai_player, hu_player) ==
    best_move_loop(Start(board), available_moves(board), 1, 0, NoMove,
                   ai_player, hu_player)

best_move(board, ai_player, hu_player) ==
    best_move_loop(Start(board), available_moves(board), 1, -INF, NoMove,
                   ai_player, hu_player)

----------------------------------------------------------------------------
(* The search with its trace.  The same two functions, with the lines they *)
(* print and the exception a print may raise.  A search carries a record s:*)
(*   board    the caller's list                                            *)
(*   out      the lines printed so far, one record per print call          *)
(*   calls    the minimax invocations made so far, in order: the list and  *)
(*            the arguments at entry, and the number of lines printed then *)
(*   error    "none", or the exception that is propagating                 *)
(*   raised_in the kind of the line whose print raised, "-" if none did    *)
(*   score    the value the last minimax call returned                     *)
(*   fail_at  the number of the print call that raises, 0 for none         *)
(* No frame catches an exception and none has a finally clause: once error *)
(* is set every later statement of every frame is skipped.                 *)

\* one printed line: what kind of line it is and the values it carries
\* (depth is the indentation, move is printed as move+1, marks are the
\* symbols printed)
TraceLine(kind, d, who, count, move, score, marks) ==
    [kind |-> kind, depth |-> d, who |-> who, count |-> count, move |-> move,
     score |-> score, marks |-> marks]

failed(s) == s.error # "none"

\* print(...)
print_line(s, line) ==
    IF failed(s) THEN s
    ELSE IF Len(s.out) + 1 = s.fail_at
    THEN [s EXCEPT !.error = "raised", !.raised_in = line.kind]
    ELSE [s EXCEPT !.out = Append(@, line)]

\* if print_tree: print(...)
print_if(s, flag, line) == IF flag THEN print_line(s, line) ELSE s

\* board[move] = player
placed(s, move, player) ==
    IF failed(s) THEN s ELSE [s EXCEPT !.board = place(@, move, player)]

\* board[move] = ' '
undone(s, move) ==
    IF failed(s) THEN s ELSE [s EXCEPT !.board = undo(@, move)]

\* return score
returned(s, score) ==
    IF failed(s) THEN s ELSE [s EXCEPT !.score = score]

\* entry of a minimax invocation
entered(s, d, is_max) ==
    [s EXCEPT !.calls = Append(@, [board |-> s.board, depth |-> d,
                                   is_maximizing |-> is_max,
                                   at |-> Len(s.out)])]

\* the record a search starts with
Search(b, n) ==
    [board |-> b, out |-> <<>>, calls |-> <<>>, error |-> "none",
     raised_in |-> "-", score |-> 0, fail_at |-> n]

\* mutant of terminal: the return statement is inside the if print_tree
\* block
terminal_return_in_if(s, flag, who, d, score) ==
    IF flag
    THEN returned(print_line(s, TraceLine("terminal", d, who, 0, 0, score, <<>>)),
                  score)
    ELSE s

\* lines 77-80, 82-85, 87-89: the Nodo terminal line and the return
terminal(s, flag, who, d, score) ==
    returned(print_if(s, flag, TraceLine("terminal", d, who, 0, 0, score, <<>>)),
             score)

RECURSIVE minimax_print(_, _, _, _, _, _)
RECURSIVE max_loop_print(_, _, _, _, _, _, _, _)
RECURSIVE min_loop_print(_, _, _, _, _, _, _, _)

\* lines 98-113: the maximizing loop from the k-th move on, then the
\* Mejor score line and the return
max_loop_print(s, moves, k, best_score, d, ai, hu, flag) ==
    IF failed(s) THEN s
    ELSE IF k > Len(moves)
    THEN returned(print_if(s, flag,
                      TraceLine("best", d, "MAX", 0, 0, best_score, <<>>)),
                  best_score)
    ELSE LET s1 == print_if(placed(s, moves[k], ai), flag,
                       TraceLine("try", d, "-", 0, moves[k] + 1, 0, <<>>))
             s2 == minimax_print(s1, d + 1, FALSE, ai, hu, flag)
             s3 == print_if(undone(s2, moves[k]), flag,
                       TraceLine("score", d, "-", 0, 0, s2.score, <<>>))
         IN  IF ~failed(s3) /\ max_improves(s2.score, best_score)
             THEN max_loop_print(s3, moves, k + 1, s2.score, d, ai, hu, flag)
             ELSE max_loop_print(s3, moves, k + 1, best_score, d, ai, hu, flag)

\* lines 119-134: the minimizing loop from the k-th move on
min_loop_print(s, moves, k, best_score, d, ai, hu, flag) ==
    IF failed(s) THEN s
    ELSE IF k > Len(moves)
    THEN returned(print_if(s, flag,
                      TraceLine("best", d, "MIN", 0, 0, best_score, <<>>)),
                  best_score)
    ELSE LET s1 == print_if(placed(s, moves[k], hu), flag,
                       TraceLine("try", d, "-", 0, moves[k] + 1, 0, <<>>))
             s2 == minimax_print(s1, d + 1, TRUE, ai, hu, flag)
             s3 == print_if(undone(s2, moves[k]), flag,
                       TraceLine("score", d, "-", 0, 0, s2.score, <<>>))
         IN  IF ~failed(s3) /\ min_improves(s2.score, best_score)
             THEN min_loop_print(s3, moves, k + 1, s2.score, d, ai, hu, flag)
             ELSE min_loop_print(s3, moves, k + 1, best_score, d, ai, hu, flag)

\* minimax(board, depth, is_maximizing, ai_player, hu_player, print_tree)
minimax_print(s0, d, is_max, ai, hu, flag) ==
    IF failed(s0) THEN s0
    ELSE LET s == entered(s0, d, is_max)
             w == check_winner(s.board)
             moves == available_moves(s.board)
         IN  IF w = ai THEN terminal(s, flag, "IA", d, win_score(d))
             ELSE IF w = hu THEN terminal(s, flag, "Humano", d, lose_score(d))
             ELSE IF w = "Tie" THEN terminal(s, flag, "Empate", d, 0)
             ELSE IF is_max
             THEN max_loop_print(
                      print_if(s, flag,
                          TraceLine("node", d, "MAX", Len(moves), 0, 0, <<ai>>)),
                      moves, 1, -INF, d, ai, hu, flag)
             ELSE min_loop_print(
                      print_if(s, flag,
                          TraceLine("node", d, "MIN", Len(moves), 0, 0, <<hu>>)),
                      moves, 1, INF, d, ai, hu, flag)

\* c if c != ' ' else '·' (the dot is written "." here)
dot(c) == IF c = " " THEN "." ELSE c

\* print_board_state(board, depth, prefix): nothing unless PRINT_TREE, else
\* the Tablero line and one line per row
RECURSIVE print_rows(_, _, _)
print_rows(s, d, i) ==
    IF i > 2 THEN s
    ELSE print_rows(
             print_line(s, TraceLine("row", d, "-", 0, 0, 0,
                 <<dot(s.board[3*i]), dot(s.board[3*i + 1]),
                   dot(s.board[3*i + 2])>>)),
             d, i + 1)

print_board_state(s, d, global) ==
    IF ~global THEN s
    ELSE print_rows(print_line(s, TraceLine("board", d, "-", 0, 0, 0, <<>>)),
                    d, 0)

\* lines 138-148: the banner, the count of moves, the board, a blank line
best_move_head(s, moves, global) ==
    print_line(
        print_board_state(
            print_line(
                print_line(
                    print_line(
                        print_line(s, TraceLine("rule", 0, "-", 0, 0, 0, <<>>)),
                        TraceLine("title", 0, "-", 0, 0, 0, <<>>)),
                    TraceLine("rule", 0, "-", 0, 0, 0, <<>>)),
                TraceLine("count", 0, "-", Len(moves), 0, 0, <<>>)),
            0, global),
        TraceLine("blank", 0, "-", 0, 0, 0, <<>>))

\* lines 162-166: the DECISIÓN lines (move_choice+1 raises TypeError when
\* move_choice is None) and the return
best_move_tail(s, move_choice, best_score) ==
    LET s1 == print_line(s, TraceLine("rule", 0, "-", 0, 0, 0, <<>>))
        s2 == IF failed(s1) THEN s1
              ELSE IF move_choice = NoMove
              THEN [s1 EXCEPT !.error = "TypeError"]
              ELSE print_line(s1, TraceLine("decision", 0, "-", 0,
                                  move_choice + 1, best_score, <<>>))
        s3 == print_line(s2, TraceLine("rule", 0, "-", 0, 0, 0, <<>>))
    IN  [move_choice |-> IF failed(s3) THEN NoMove ELSE move_choice,
         best_score |-> best_score, board |-> s3.board, out |-> s3.out,
         calls |-> s3.calls, error |-> s3.error, raised_in |-> s3.raised_in]

\* lines 150-160: the loop of best_move from the k-th move on
RECURSIVE best_move_loop_print(_, _, _, _, _, _, _)
best_move_loop_print(s, moves, k, best_score, move_choice, ai, hu) ==
    IF failed(s) \/ k > Len(moves)
    THEN best_move_tail(s, move_choice, best_score)
    ELSE LET s1 == print_line(placed(s, moves[k], ai),
                       TraceLine("root_try", 0, ai, 0, moves[k] + 1, 0, <<>>))
             s2 == minimax_print(s1, 0, FALSE, ai, hu, TRUE)
             s3 == print_line(undone(s2, moves[k]),
                       TraceLine("root_score", 0, "-", 0, moves[k] + 1,
                                 s2.score, <<>>))
         IN  IF ~failed(s3) /\ root_improves(s2.score, best_score)
             THEN best_move_loop_print(s3, moves, k + 1, s2.score, moves[k],
                                       ai, hu)
             ELSE best_move_loop_print(s3, moves, k + 1, best_score,
                                       move_choice, ai, hu)

\* best_move(board, ai_player, hu_player) under the global PRINT_TREE, with
\* the fail_at-th print raising
best_move_print(b, ai, hu, global, n) ==
    best_move_loop_print(
        best_move_head(Search(b, n), available_moves(b), global),
        available_moves(b), 1, -INF, NoMove, ai, hu)

----------------------------------------------------------------------------
(* State.                                                                  *)
(* The fields of TicTacToeGame (state, board, hu_player, ai_player,        *)
(* hu_turn, winner, button_rect), pygame's USEREVENT timer (timer: armed   *)
(* by set_timer(USEREVENT, 500); pending: USEREVENTs posted and not yet    *)
(* handled), and, for the specifications that call one function of the     *)
(* module on a chosen input, the call: pc is "call" before it and "done"   *)
(* after it, pre_board is the caller's list before the call, depth,        *)
(* is_maximizing and print_tree are minimax's arguments, ret is what the   *)
(* call gave back, and board, ai_player, hu_player are its other           *)
(* arguments.  PRINT_TREE is the module's global.  fail_at numbers the     *)
(* print call of a search that raises (0: none does).  invoked is the      *)
(* best_move call made by the event handled last, if it made one.          *)
VARIABLES state, board, hu_player, ai_player, hu_turn, winner, button_rect,
          timer, pending, opening, invoked, pc, pre_board, depth,
          is_maximizing, print_tree, PRINT_TREE, fail_at, ret

game_vars ==
    <<state, hu_turn, winner, button_rect, timer, pending, opening, invoked>>

call_vars ==
    <<pc, pre_board, depth, is_maximizing, print_tree, PRINT_TREE, fail_at, ret>>

vars == <<state, board, hu_player, ai_player, hu_turn, winner, button_rect,
          timer, pending, opening, invoked, pc, pre_board, depth,
          is_maximizing, print_tree, PRINT_TREE, fail_at, ret>>

\* the greatest number of empty cells of the boards the functions are
\* called on (next to the boards named below)
MaxEmpty == 4

NumEmpty(b) == Cardinality({i \in Cells : b[i] = " "})

AllBoards == [Cells -> Marks]

SmallBoards == {b \in AllBoards : NumEmpty(b) <= MaxEmpty}

\* [" "," "," "," ","O"," "," "," "," "]
CenterBoard == [EmptyBoard EXCEPT ![4] = "O"]

\* ["X","X"," ","O","O"," "," "," "," "]
TwoRowsBoard ==
    [EmptyBoard EXCEPT ![0] = "X", ![1] = "X", ![3] = "O", ![4] = "O"]

\* no best_move call made by the event handled last
NoCall ==
    [made |-> FALSE, board |-> EmptyBoard, state |-> "menu", hu_turn |-> FALSE]

\* the best_move call ai_move makes: the list passed and the fields state
\* and hu_turn at that moment
Call(b, st, turn) ==
    [made |-> TRUE, board |-> b, state |-> st, hu_turn |-> turn]

\* the game fields of a specification that only calls a function
NoGame ==
    /\ state = "menu"
    /\ hu_turn = FALSE
    /\ winner = None
    /\ button_rect = FALSE
    /\ timer = FALSE
    /\ pending = 0
    /\ opening = None
    /\ invoked = NoCall

\* the trace arguments of a call that is made as the game makes it
NoTrace ==
    /\ print_tree = TRUE
    /\ PRINT_TREE = TRUE
    /\ fail_at = 0

----------------------------------------------------------------------------
(* TicTacToeGame.  One action per event the loop of run() handles; the     *)
(* drawing step of the loop is an action of its own.                       *)

\* the greatest number of USEREVENTs posted and not yet handled
MaxPending == 2

\* best_move(self.board, self.ai_player, self.hu_player) as ai_move calls
\* it.  start_game makes the same call, on the fresh board with the AI
\* playing X, at the start of every game the AI opens: opening holds what
\* that call gives back, computed once in Init.
search(b, ai, hu, first) ==
    IF b = EmptyBoard /\ ai = "X" /\ hu = "O" THEN first
    ELSE best_move(b, ai, hu)

\* mutant of ai_move: check_winner is not called after the AI's mark, the
\* turn goes back to the human
ai_move_unchecked(b, ai, hu, st, w, turn, first) ==
    IF Len(available_moves(b)) = 0
    THEN [board |-> b, winner |-> w, state |-> st, hu_turn |-> turn,
          call |-> NoCall]
    ELSE LET r  == search(b, ai, hu, first)
         IN  [board |-> place(r.board, r.move_choice, ai), winner |-> w,
              state |-> st, hu_turn |-> TRUE, call |-> Call(b, st, turn)]

\* ai_move: the fields it may change, from their values at the call.
\* best_move returns None on no board with an empty cell (and raises instead
\* of returning it), so the move is not None branch is always taken.
ai_move(b, ai, hu, st, w, turn, first) ==
    IF Len(available_moves(b)) = 0
    THEN [board |-> b, winner |-> w, state |-> st, hu_turn |-> turn,
          call |-> NoCall]
    ELSE LET r  == search(b, ai, hu, first)
             b2 == place(r.board, r.move_choice, ai)
             w2 == check_winner(b2)
         IN  IF r.move_choice = NoMove
             THEN [board |-> r.board, winner |-> w, state |-> st,
                   hu_turn |-> turn, call |-> Call(b, st, turn)]
             ELSE IF w2 # None
             THEN [board |-> b2, winner |-> w2, state |-> "game_over",
                   hu_turn |-> turn, call |-> Call(b, st, turn)]
             ELSE [board |-> b2, winner |-> w, state |-> st, hu_turn |-> TRUE,
                   call |-> Call(b, st, turn)]

\* __init__
Init ==
    /\ state = "menu"
    /\ board = EmptyBoard
    /\ hu_player = None
    /\ ai_player = None
    /\ hu_turn = FALSE
    /\ winner = None
    /\ button_rect = FALSE
    /\ timer = FALSE
    /\ pending = 0
    /\ opening = best_move(EmptyBoard, "X", "O")
    /\ invoked = NoCall
    /\ pc = "game"
    /\ pre_board = EmptyBoard
    /\ depth = 0
    /\ is_maximizing = FALSE
    /\ NoTrace
    /\ ret = None

\* MOUSEBUTTONDOWN on the X button of the menu: handle_click_menu, then
\* start_game with the human to move
ClickMenuX ==
    /\ pc = "game"
    /\ state = "menu"
    /\ hu_player' = "X"
    /\ ai_player' = "O"
    /\ hu_turn' = TRUE
    /\ board' = EmptyBoard
    /\ state' = "playing"
    /\ winner' = None
    /\ invoked' = NoCall
    /\ UNCHANGED <<button_rect, timer, pending, opening, call_vars>>

\* MOUSEBUTTONDOWN on the O button of the menu: handle_click_menu, then
\* start_game, which calls ai_move at once
ClickMenuO ==
    /\ pc = "game"
    /\ state = "menu"
    /\ hu_player' = "O"
    /\ ai_player' = "X"
    /\ \E m \in {ai_move(EmptyBoard, "X", "O", "playing", None, FALSE,
                          opening)} :
           /\ board' = m.board
           /\ winner' = m.winner
           /\ state' = m.state
           /\ hu_turn' = m.hu_turn
           /\ invoked' = m.call
    /\ UNCHANGED <<button_rect, timer, pending, opening, call_vars>>

\* mutant of ClickCell: the timer is not armed after the human's mark
ClickCell_no_timer(idx) ==
    /\ pc = "game"
    /\ state = "playing"
    /\ hu_turn
    /\ board[idx] = " "
    /\ LET b2 == place(board, idx, hu_player)
           w2 == check_winner(b2)
       IN  /\ board' = b2
           /\ IF w2 # None
              THEN /\ winner' = w2
                   /\ state' = "game_over"
                   /\ UNCHANGED <<hu_turn, timer>>
              ELSE /\ hu_turn' = FALSE
                   /\ UNCHANGED <<winner, state, timer>>
    /\ invoked' = NoCall
    /\ UNCHANGED <<hu_player, ai_player, button_rect, pending, opening,
                   call_vars>>

\* mutant of ClickCell: the handler does not test hu_turn
ClickCell_any_turn(idx) ==
    /\ pc = "game"
    /\ state = "playing"
    /\ board[idx] = " "
    /\ LET b2 == place(board, idx, hu_player)
           w2 == check_winner(b2)
       IN  /\ board' = b2
           /\ IF w2 # None
              THEN /\ winner' = w2
                   /\ state' = "game_over"
                   /\ UNCHANGED <<hu_turn, timer>>
              ELSE /\ hu_turn' = FALSE
                   /\ timer' = TRUE
                   /\ UNCHANGED <<winner, state>>
    /\ invoked' = NoCall
    /\ UNCHANGED <<hu_player, ai_player, button_rect, pending, opening,
                   call_vars>>

\* MOUSEBUTTONDOWN while playing, on the cell idx: handle_click_game
\* (a click when it is not the human's turn or on a taken cell changes
\* nothing)
ClickCell(idx) ==
    /\ pc = "game"
    /\ state = "playing"
    /\ hu_turn
    /\ board[idx] = " "
    /\ LET b2 == place(board, idx, hu_player)
           w2 == check_winner(b2)
       IN  /\ board' = b2
           /\ IF w2 # None
              THEN /\ winner' = w2
                   /\ state' = "game_over"
                   /\ UNCHANGED <<hu_turn, timer>>
              ELSE /\ hu_turn' = FALSE
                   /\ timer' = TRUE
                   /\ UNCHANGED <<winner, state>>
    /\ invoked' = NoCall
    /\ UNCHANGED <<hu_player, ai_player, button_rect, pending, opening,
                   call_vars>>

\* pygame posts a USEREVENT while the timer is armed
TimerPost ==
    /\ pc = "game"
    /\ timer
    /\ pending < MaxPending
    /\ pending' = pending + 1
    /\ invoked' = NoCall
    /\ UNCHANGED <<state, board, hu_player, ai_player, hu_turn, winner,
                   button_rect, timer, opening, call_vars>>

\* mutant of UserEvent: the handler does not test hu_turn
UserEvent_any_turn ==
    /\ pc = "game"
    /\ pending > 0
    /\ pending' = pending - 1
    /\ timer' = FALSE
    /\ IF state = "playing"
       THEN \E m \in {ai_move(board, ai_player, hu_player, state, winner,
                               hu_turn, opening)} :
                /\ board' = m.board
                /\ winner' = m.winner
                /\ state' = m.state
                /\ hu_turn' = m.hu_turn
                /\ invoked' = m.call
       ELSE /\ invoked' = NoCall
            /\ UNCHANGED <<board, winner, state, hu_turn>>
    /\ UNCHANGED <<hu_player, ai_player, button_rect, opening, call_vars>>

\* USEREVENT handled by run(): the timer is switched off and the AI moves
\* if the game is being played and it is not the human's turn
UserEvent ==
    /\ pc = "game"
    /\ pending > 0
    /\ pending' = pending - 1
    /\ timer' = FALSE
    /\ IF state = "playing" /\ ~hu_turn
       THEN \E m \in {ai_move(board, ai_player, hu_player, state, winner,
                               hu_turn, opening)} :
                /\ board' = m.board
                /\ winner' = m.winner
                /\ state' = m.state
                /\ hu_turn' = m.hu_turn
                /\ invoked' = m.call
       ELSE /\ invoked' = NoCall
            /\ UNCHANGED <<board, winner, state, hu_turn>>
    /\ UNCHANGED <<hu_player, ai_player, button_rect, opening, call_vars>>

\* the drawing step of run() in state game_over: draw_game_over sets
\* button_rect
DrawGameOver ==
    /\ pc = "game"
    /\ state = "game_over"
    /\ ~button_rect
    /\ button_rect' = TRUE
    /\ invoked' = NoCall
    /\ UNCHANGED <<state, board, hu_player, ai_player, hu_turn, winner,
                   timer, pending, opening, call_vars>>

\* MOUSEBUTTONDOWN on the Nueva Partida button: handle_click_game_over
ClickNewGame ==
    /\ pc = "game"
    /\ state = "game_over"
    /\ button_rect
    /\ state' = "menu"
    /\ invoked' = NoCall
    /\ UNCHANGED <<board, hu_player, ai_player, hu_turn, winner, button_rect,
                   timer, pending, opening, call_vars>>

Next ==
    \/ ClickMenuX
    \/ ClickMenuO
    \/ \E idx \in Cells : ClickCell(idx)
    \/ TimerPost
    \/ UserEvent
    \/ DrawGameOver
    \/ ClickNewGame

Spec == Init /\ [][Next]_vars

\* The event loop with the events a game needs eventually coming: the human
\* clicks an empty cell when it is their turn, pygame posts the USEREVENT of
\* an armed timer, and run() handles a queued USEREVENT.
\* Weak fairness of the click and of the USEREVENT handler is written out,
\* []<>(not enabled) \/ []<>(taken), with the enabling condition of each
\* taken from its guards.

\* handle_click_game accepts some click: a game is being played, it is the
\* human's turn, and a cell is empty
ClickCellEnabled ==
    /\ pc = "game"
    /\ state = "playing"
    /\ hu_turn
    /\ \E idx \in Cells : board[idx] = " "

\* run() has a USEREVENT to handle
UserEventEnabled == pc = "game" /\ pending > 0

SpecLive ==
    /\ Init
    /\ [][Next]_vars
    /\ WF_vars(TimerPost)
    /\ ([]<>(~ClickCellEnabled) \/ []<><<\E idx \in Cells : ClickCell(idx)>>_vars)
    /\ ([]<>(~UserEventEnabled) \/ []<><<UserEvent>>_vars)

----------------------------------------------------------------------------
(* best_move called on a board: every board with at most MaxEmpty empty    *)
(* cells for either symbol of the AI, and the three boards the             *)
(* specification names, with the AI playing X.                             *)

InitBestMove ==
    /\ NoGame
    /\ pc = "call"
    /\ \/ board \in {EmptyBoard, CenterBoard, TwoRowsBoard} /\ ai_player = "X"
       \/ board \in SmallBoards /\ ai_player \in Symbols
    /\ hu_player = Other(ai_player)
    /\ pre_board = board
    /\ depth = 0
    /\ is_maximizing = FALSE
    /\ NoTrace
    /\ ret = None

CallBestMove ==
    /\ pc = "call"
    /\ ret' = best_move(board, ai_player, hu_player)
    /\ board' = ret'.board
    /\ pc' = "done"
    /\ UNCHANGED <<game_vars, hu_player, ai_player, pre_board, depth,
                   is_maximizing, print_tree, PRINT_TREE, fail_at>>

NextBestMove == CallBestMove

SpecBestMove == InitBestMove /\ [][NextBestMove]_vars
----------------------------------------------------------------------------
(* minimax called on a board at a depth, for either level and either       *)
(* symbol of the AI: every board on which some line is complete, and every *)
(* board with at most MaxOpen empty cells.                                 *)

\* the greatest depth minimax is called with
MaxDepth == 8

\* the greatest number of empty cells of the boards without a complete line
\* minimax is called on
MaxOpen == 2

\* the cells of the k-th combination all hold p
HasTriple(b, k, p) == \A j \in 1..3 : b[WIN_COMBINATIONS[k][j]] = p

\* some combination is complete for p
HasLine(b, p) == \E k \in 1..Len(WIN_COMBINATIONS) : HasTriple(b, k, p)

MinimaxBoards ==
    {b \in AllBoards :
        HasLine(b, "X") \/ HasLine(b, "O") \/ NumEmpty(b) <= MaxOpen}

InitMinimax ==
    /\ NoGame
    /\ pc = "call"
    /\ board \in MinimaxBoards
    /\ ai_player \in Symbols
    /\ hu_player = Other(ai_player)
    /\ pre_board = board
    /\ depth \in 0..MaxDepth
    /\ is_maximizing \in BOOLEAN
    /\ NoTrace
    /\ ret = None

CallMinimax ==
    /\ pc = "call"
    /\ ret' = minimax(board, depth, is_maximizing, ai_player, hu_player)
    /\ board' = ret'.board
    /\ pc' = "done"
    /\ UNCHANGED <<game_vars, hu_player, ai_player, pre_board, depth,
                   is_maximizing, print_tree, PRINT_TREE, fail_at>>

NextMinimax == CallMinimax

SpecMinimax == InitMinimax /\ [][NextMinimax]_vars

----------------------------------------------------------------------------
(* check_winner called on a board: every board.  The function only reads   *)
(* the list.                                                               *)

InitCheckWinner ==
    /\ NoGame
    /\ pc = "call"
    /\ board \in AllBoards
    /\ ai_player = "X"
    /\ hu_player = "O"
    /\ pre_board = board
    /\ depth = 0
    /\ is_maximizing = FALSE
    /\ NoTrace
    /\ ret = None

CallCheckWinner ==
    /\ pc = "call"
    /\ ret' = check_winner(board)
    /\ pc' = "done"
    /\ UNCHANGED <<game_vars, board, hu_player, ai_player, pre_board, depth,
                   is_maximizing, print_tree, PRINT_TREE, fail_at>>

NextCheckWinner == CallCheckWinner

SpecCheckWinner == InitCheckWinner /\ [][NextCheckWinner]_vars

----------------------------------------------------------------------------
(* The search with its trace, called on a board: minimax with either value *)
(* of print_tree, or best_move under either value of PRINT_TREE, on every  *)
(* board with at most MaxTraced empty cells; no print raises.              *)

\* the greatest number of empty cells of the boards whose trace is kept
MaxTraced == 2

TraceBoards == {b \in AllBoards : NumEmpty(b) <= MaxTraced}

\* the depths minimax is called with when its trace is kept
TraceDepths == {0, 1}

InitTrace ==
    /\ NoGame
    /\ board \in TraceBoards
    /\ ai_player \in Symbols
    /\ hu_player = Other(ai_player)
    /\ pre_board = board
    /\ fail_at = 0
    /\ \/ /\ pc = "call_minimax"
          /\ depth \in TraceDepths
          /\ is_maximizing \in BOOLEAN
          /\ print_tree \in BOOLEAN
          /\ PRINT_TREE = TRUE
       \/ /\ pc = "call_best_move"
          /\ depth = 0
          /\ is_maximizing = FALSE
          /\ print_tree = TRUE
          /\ PRINT_TREE \in BOOLEAN
    /\ ret = None

CallMinimaxPrint ==
    /\ pc = "call_minimax"
    /\ ret' = minimax_print(Search(board, fail_at), depth, is_maximizing,
                            ai_player, hu_player, print_tree)
    /\ board' = ret'.board
    /\ pc' = "done_minimax"
    /\ UNCHANGED <<game_vars, hu_player, ai_player, pre_board, depth,
                   is_maximizing, print_tree, PRINT_TREE, fail_at>>

CallBestMovePrint ==
    /\ pc = "call_best_move"
    /\ ret' = best_move_print(board, ai_player, hu_player, PRINT_TREE, fail_at)
    /\ board' = ret'.board
    /\ pc' = "done_best_move"
    /\ UNCHANGED <<game_vars, hu_player, ai_player, pre_board, depth,
                   is_maximizing, print_tree, PRINT_TREE, fail_at>>

NextTrace == CallMinimaxPrint \/ CallBestMovePrint

SpecTrace == InitTrace /\ [][NextTrace]_vars

----------------------------------------------------------------------------
(* best_move called on a board while one of its print calls raises (a      *)
(* closed or misencoded standard output): every board with no outcome yet  *)
(* and at most MaxTraced empty cells, the print that raises being any of   *)
(* the first MaxFail ones.                                                 *)

\* the greatest number of the print call that raises
MaxFail == 12

FailBoards == {b \in TraceBoards : check_winner(b) = None}

InitFailure ==
    /\ NoGame
    /\ pc = "call_best_move"
    /\ board \in FailBoards
    /\ ai_player \in Symbols
    /\ hu_player = Other(ai_player)
    /\ pre_board = board
    /\ depth = 0
    /\ is_maximizing = FALSE
    /\ print_tree = TRUE
    /\ PRINT_TREE \in BOOLEAN
    /\ fail_at \in 1..MaxFail
    /\ ret = None

SpecFailure == InitFailure /\ [][CallBestMovePrint]_vars

----------------------------------------------------------------------------
(* best_move called on a malformed board: nine cells, one of which holds a *)
(* value that is neither ' ' nor a player's symbol, the others as on the   *)
(* boards with at most MaxOpen empty cells.                                *)

\* a cell value outside {' ', 'X', 'O'}
Foreign == "Z"

MalformedBoards ==
    {[b EXCEPT ![i] = Foreign] :
        b \in {c \in AllBoards : NumEmpty(c) <= MaxOpen}, i \in Cells}

InitMalformed ==
    /\ NoGame
    /\ pc = "call"
    /\ board \in MalformedBoards
    /\ ai_player \in Symbols
    /\ hu_player = Other(ai_player)
    /\ pre_board = board
    /\ depth = 0
    /\ is_maximizing = FALSE
    /\ NoTrace
    /\ ret = None

SpecMalformed == InitMalformed /\ [][NextBestMove]_vars

----------------------------------------------------------------------------
(* Properties of best_move, under SpecBestMove *)

EmptyCells(b) == {i \in Cells : b[i] = " "}

\* the score best_move gets for the candidate m: minimax of the board with
\* the AI's mark at m, depth 0, minimizing level
CandidateScore(b, m, ai, hu) == minimax(place(b, m, ai), 0, FALSE, ai, hu).score

\* the candidates of b with their scores
Candidates(b, ai, hu) ==
    {<<m, CandidateScore(b, m, ai, hu)>> : m \in EmptyCells(b)}

\* placing p at the empty cell m completes one of the 8 lines for p
CompletesLine(b, m, p) ==
    /\ b[m] = " "
    /\ \E k \in 1..Len(WIN_COMBINATIONS) :
          LET t == {WIN_COMBINATIONS[k][j] : j \in 1..3} IN
          m \in t /\ \A c \in t \ {m} : b[c] = p

\* C1: once best_move returns, the caller's board is the board it was given:
\* every mark the search wrote has been reset to ' ', and the returned move
\* is a cell that was and is empty.
C1_BoardRestored ==
    (pc = "done" /\ ret.error = "none") =>
        /\ \A i \in Cells : board[i] = pre_board[i]
        /\ pre_board[ret.move_choice] = " "

\* a call that returned after a search of more than 100 minimax invocations
C1_Witness ==
    /\ pc = "done"
    /\ ret.error = "none"
    /\ NumEmpty(pre_board) >= 4
    /\ ret.nodes > 100
    /\ board = pre_board

\* C2: on an in-progress board best_move returns the smallest empty index
\* whose candidate score is the maximum over the empty cells, and best_score
\* is that maximum.
C2_FirstFound ==
    (pc = "done" /\ check_winner(pre_board) = None) =>
        LET P == Candidates(pre_board, ai_player, hu_player) IN
        /\ EmptyCells(pre_board) # {}
        /\ ret.error = "none"
        /\ <<ret.move_choice, ret.best_score>> \in P
        /\ \A q \in P : /\ q[2] <= ret.best_score
                        /\ q[2] = ret.best_score => ret.move_choice <= q[1]

\* a call where a later cell has the same score as the returned one
C2_Witness ==
    /\ pc = "done"
    /\ check_winner(pre_board) = None
    /\ \E q \in Candidates(pre_board, ai_player, hu_player) :
          q[1] > ret.move_choice /\ q[2] = ret.best_score

\* C4: on an in-progress board where some empty cell completes a line for
\* the AI, best_move returns the lowest such cell; on
\* [X,X,' ',O,O,' ',' ',' ',' '] with AI = X it returns 2.
C4_TakesWin ==
    /\ (pc = "done" /\ check_winner(pre_board) = None
        /\ \E m \in Cells : CompletesLine(pre_board, m, ai_player)) =>
           /\ ret.error = "none"
           /\ CompletesLine(pre_board, ret.move_choice, ai_player)
           /\ \A m \in Cells : CompletesLine(pre_board, m, ai_player)
                                   => ret.move_choice <= m
    /\ (pc = "done" /\ pre_board = TwoRowsBoard /\ ai_player = "X") =>
           ret.move_choice = 2

\* the call on [X,X,' ',O,O,' ',' ',' ',' '] has returned 2 after searching
\* below the other candidates as well
C4_Witness ==
    /\ pc = "done"
    /\ pre_board = TwoRowsBoard
    /\ ai_player = "X"
    /\ ret.move_choice = 2
    /\ ret.nodes > NumEmpty(pre_board)

\* C5: from the empty board with AI = X, best_move returns a corner or the
\* center and the root score is 0.
C5_Opening ==
    (pc = "done" /\ pre_board = EmptyBoard /\ ai_player = "X") =>
        /\ ret.move_choice \in {0, 2, 4, 6, 8}
        /\ ret.best_score = 0

\* the call on the empty board has returned
C5_Witness ==
    /\ pc = "done"
    /\ pre_board = EmptyBoard
    /\ ai_player = "X"
    /\ hu_player = "O"
    /\ ret.error = "none"
    /\ ret.nodes > 500000

\* C6: on the board whose only mark is O in the center, with AI = X,
\* best_move returns a corner and the root score is 0.
C6_CenterReply ==
    (pc = "done" /\ pre_board = CenterBoard /\ ai_player = "X") =>
        /\ ret.move_choice \in {0, 2, 6, 8}
        /\ ret.best_score = 0

\* the call on the center board has returned
C6_Witness ==
    /\ pc = "done"
    /\ pre_board = CenterBoard
    /\ ai_player = "X"
    /\ hu_player = "O"
    /\ ret.error = "none"
    /\ ret.nodes > 50000

\* C7: on a board with exactly one empty cell and no winner, best_move
\* returns that cell.
C7_OnlyMove ==
    (pc = "done" /\ NumEmpty(pre_board) = 1 /\ check_winner(pre_board) = None) =>
        /\ ret.error = "none"
        /\ pre_board[ret.move_choice] = " "

\* a call on a one-empty-cell board whose only move ends the game in a tie
C7_Witness ==
    /\ pc = "done"
    /\ NumEmpty(pre_board) = 1
    /\ check_winner(pre_board) = None
    /\ ret.error = "none"
    /\ ret.best_score = 0
    /\ pre_board[ret.move_choice] = " "

\* C9: every value returned by a minimax invocation made during a best_move
\* call lies in [-10, 10].
C9_ScoreRange ==
    (pc = "done" /\ ret.nodes > 0) => (-10 <= ret.lo /\ ret.hi <= 10)

\* a search in which a win at depth 0 (score 10) and a negative score were
\* returned, from a board no line of which is complete
C9_Witness ==
    /\ pc = "done"
    /\ check_winner(pre_board) = None
    /\ ret.nodes > 10
    /\ ret.hi = 10
    /\ ret.lo < 0

\* C17 as stated: one best_move call makes at most 9! = 362,880 minimax
\* invocations.
C17_AsStated ==
    pc = "done" => ret.nodes <= 362880

\* C17, amended: one best_move call makes at most 549,945 minimax
\* invocations; the empty board is the worst case, with exactly that many,
\* and every other board takes fewer.
C17_SearchSize ==
    pc = "done" =>
        /\ ret.nodes <= 549945
        /\ pre_board = EmptyBoard => ret.nodes = 549945
        /\ pre_board # EmptyBoard => ret.nodes < 549945

\* the call on the empty board has returned after more than 9! invocations
C17_Witness ==
    /\ pc = "done"
    /\ pre_board = EmptyBoard
    /\ ret.error = "none"
    /\ ret.nodes > 362880
    /\ ret.nodes = 549945
----------------------------------------------------------------------------
(* Properties of the game, under Spec *)

\* C3: no game ends with the human as the winner: a finished game is won
\* by the AI or tied.
C3_NeverLoses ==
    /\ winner # None => winner # hu_player
    /\ state = "game_over" => winner \in {ai_player, "Tie"}

\* a finished game the human opened as X and the AI won
C3_Witness ==
    /\ state = "game_over"
    /\ hu_player = "X"
    /\ winner = ai_player
    /\ check_winner(board) = "O"
----------------------------------------------------------------------------
(* Properties of minimax, under SpecMinimax *)

\* the combinations complete on b, by their place in WIN_COMBINATIONS
CompleteTriples(b) ==
    {k \in 1..Len(WIN_COMBINATIONS) : HasTriple(b, k, "X") \/ HasTriple(b, k, "O")}

\* the symbol of the first complete combination of b, None if there is none
FirstLineSymbol(b) ==
    IF CompleteTriples(b) = {} THEN None
    ELSE LET k == CHOOSE i \in CompleteTriples(b) :
                      \A j \in CompleteTriples(b) : i <= j
         IN  b[WIN_COMBINATIONS[k][1]]

\* C8 as stated: minimax returns 10 - depth when the AI symbol has a
\* complete line, depth - 10 when the human symbol has one, 0 on a full
\* board without a complete line, without recursing.
C8_AsStated ==
    pc = "done" =>
        /\ HasLine(pre_board, ai_player) =>
               (ret.score = 10 - depth /\ ret.nodes = 1)
        /\ HasLine(pre_board, hu_player) =>
               (ret.score = depth - 10 /\ ret.nodes = 1)
        /\ (CompleteTriples(pre_board) = {} /\ NumEmpty(pre_board) = 0) =>
               (ret.score = 0 /\ ret.nodes = 1)

\* C8, amended: minimax returns 10 - depth when the first complete
\* combination in the order of WIN_COMBINATIONS holds the AI symbol,
\* depth - 10 when it holds the human symbol, and 0 on a full board without
\* a complete combination; in the three cases it makes no recursive call and
\* leaves the board as it was, whatever is_maximizing is.
C8_Terminal ==
    pc = "done" =>
        /\ FirstLineSymbol(pre_board) = ai_player =>
               (ret.score = 10 - depth /\ ret.nodes = 1 /\ board = pre_board)
        /\ FirstLineSymbol(pre_board) = hu_player =>
               (ret.score = depth - 10 /\ ret.nodes = 1 /\ board = pre_board)
        /\ (CompleteTriples(pre_board) = {} /\ NumEmpty(pre_board) = 0) =>
               (ret.score = 0 /\ ret.nodes = 1 /\ board = pre_board)

\* a maximizing call at depth 3 on a board where both symbols have a
\* complete line and the first one is the human's
C8_Witness ==
    /\ pc = "done"
    /\ is_maximizing
    /\ depth = 3
    /\ HasLine(pre_board, ai_player)
    /\ FirstLineSymbol(pre_board) = hu_player
    /\ ret.score = -7
    /\ ret.nodes = 1

----------------------------------------------------------------------------
(* Properties of check_winner, under SpecCheckWinner *)

\* C10: check_winner returns the symbol of the first complete combination
\* in the order of WIN_COMBINATIONS; 'Tie' exactly when no combination is
\* complete and no cell is empty; None otherwise; the board is not modified.
C10_CheckWinner ==
    pc = "done" =>
        /\ CompleteTriples(pre_board) # {} => ret = FirstLineSymbol(pre_board)
        /\ ret = "Tie" <=>
               (CompleteTriples(pre_board) = {} /\ NumEmpty(pre_board) = 0)
        /\ (CompleteTriples(pre_board) = {} /\ NumEmpty(pre_board) > 0) =>
               ret = None
        /\ ret \in Symbols => CompleteTriples(pre_board) # {}
        /\ board = pre_board

\* a full board whose first row is X's and whose last row is O's: X is
\* returned, not O and not 'Tie'
C10_Witness ==
    /\ pc = "done"
    /\ NumEmpty(pre_board) = 0
    /\ HasTriple(pre_board, 1, "X")
    /\ HasTriple(pre_board, 3, "O")
    /\ ret = "X"

----------------------------------------------------------------------------
(* Preconditions of best_move, under SpecBestMove *)

\* C11: best_move called on a board with no empty cell, or on a board whose
\* outcome is already terminal (check_winner gives a symbol or 'Tie'), fails
\* with an error and returns no cell index.
C11_InvalidState ==
    (pc = "done" /\ (NumEmpty(pre_board) = 0 \/ check_winner(pre_board) # None))
        => (ret.error # "none" /\ ret.move_choice = NoMove)

----------------------------------------------------------------------------
(* Properties of the trace, under SpecTrace *)

\* C12: the trace never influences the result.  minimax run with the other
\* value of print_tree returns the same score, leaves the same board and
\* makes the same invocations; best_move run under the other value of
\* PRINT_TREE returns the same move with the same score and leaves the same
\* board.
C12_TraceNeutral ==
    /\ pc = "done_minimax" =>
          LET q == minimax_print(Search(pre_board, 0), depth, is_maximizing,
                                 ai_player, hu_player, ~print_tree)
          IN  /\ ret.error = "none" /\ q.error = "none"
              /\ q.score = ret.score
              /\ q.board = ret.board
              /\ Len(q.calls) = Len(ret.calls)
              /\ \A i \in 1..Len(q.calls) :
                     q.calls[i].board = ret.calls[i].board
    /\ pc = "done_best_move" =>
          LET q == best_move_print(pre_board, ai_player, hu_player,
                                   ~PRINT_TREE, 0)
          IN  /\ q.error = ret.error
              /\ q.move_choice = ret.move_choice
              /\ q.best_score = ret.best_score
              /\ q.board = ret.board

\* a minimax call with print_tree=True on a board with two empty cells
\* and no winner, which printed more than ten lines and returned a nonzero
\* score, where the silent run prints nothing
C12_Witness ==
    /\ pc = "done_minimax"
    /\ print_tree
    /\ NumEmpty(pre_board) = 2
    /\ check_winner(pre_board) = None
    /\ Len(ret.out) > 10
    /\ ret.score # 0
    /\ Len(minimax_print(Search(pre_board, 0), depth, is_maximizing,
                         ai_player, hu_player, FALSE).out) = 0

----------------------------------------------------------------------------
(* Properties of best_move on malformed boards, under SpecMalformed *)

\* C13: a board with a cell value outside {' ', ai symbol, human symbol} is
\* rejected with an error before the search begins: no minimax call is made
\* and no cell is written.
C13_InvalidInput ==
    (pc = "done" /\ \E i \in Cells : pre_board[i] \notin Marks) =>
        /\ ret.error # "none"
        /\ ret.move_choice = NoMove
        /\ ret.nodes = 0
        /\ board = pre_board

\* the least element of a nonempty set of numbers
Least(S) == CHOOSE x \in S : \A y \in S : x <= y

\* the r-th smallest element of a set of numbers
Nth(S, r) == CHOOSE x \in S : Cardinality({y \in S : y <= x}) = r

\* the place of x in S, counted from the smallest
Rank(S, x) == Cardinality({y \in S : y <= x})

\* the last invocation made below the i-th one (i itself if it made none):
\* the invocations that follow it up to the next one that is not deeper
SubtreeEnd(C, i) ==
    LET later == {j \in (i+1)..Len(C) : C[j].depth <= C[i].depth}
    IN  IF later = {} THEN Len(C) ELSE Least(later) - 1

\* the invocations the i-th one made itself
Children(C, i) ==
    {j \in (i+1)..SubtreeEnd(C, i) : C[j].depth = C[i].depth + 1}

\* the symbol placed at the level of the invocation c
Mover(c, ai, hu) == IF c.is_maximizing THEN ai ELSE hu

\* the invocations kids are made from the board b, one for each empty cell
\* of b in ascending order, each on b with the mark sym in that cell, at the
\* level is_max
OnePerEmptyCell(C, kids, b, sym, is_max) ==
    /\ Cardinality(kids) = Cardinality(EmptyCells(b))
    /\ \A j \in kids :
          /\ C[j].board =
                 [b EXCEPT ![Nth(EmptyCells(b), Rank(kids, j))] = sym]
          /\ C[j].is_maximizing = is_max

\* no pruning: a terminal invocation makes none, any other makes one per
\* empty cell of its board, in ascending order of the cell
NoPruning(C, ai, hu) ==
    \A i \in 1..Len(C) :
        IF FirstLineSymbol(C[i].board) # None \/ NumEmpty(C[i].board) = 0
        THEN SubtreeEnd(C, i) = i
        ELSE OnePerEmptyCell(C, Children(C, i), C[i].board,
                             Mover(C[i], ai, hu), ~C[i].is_maximizing)

\* the trace of the i-th invocation, a terminal one: its Nodo terminal line
\* and nothing else
TerminalTrace(C, T, i) ==
    /\ C[i].at + 1 <= Len(T)
    /\ T[C[i].at + 1].kind = "terminal"
    /\ T[C[i].at + 1].depth = C[i].depth

\* the trace of the i-th invocation, not a terminal one: its MAX/MIN line
\* at p, its Mejor score line at q, and between them, at its own depth, a
\* Probando movimiento line and a Score recibido line for each empty cell in
\* ascending order; each child is entered right after its Probando line, all
\* its lines are deeper, and the Score recibido line that follows them
\* carries the score of the child's last line
NodeTrace(C, T, i, ai, hu) ==
    LET d == C[i].depth
        p == C[i].at + 1
        level == IF C[i].is_maximizing THEN "MAX" ELSE "MIN"
        cells == EmptyCells(C[i].board)
        ends == {x \in (p+1)..Len(T) : T[x].kind = "best" /\ T[x].depth = d}
        q == Least(ends)
        own == {x \in (p+1)..(q-1) : T[x].depth = d}
    IN  /\ p <= Len(T)
        /\ T[p].kind = "node" /\ T[p].depth = d /\ T[p].who = level
        /\ T[p].count = Cardinality(cells)
        /\ T[p].marks = <<Mover(C[i], ai, hu)>>
        /\ ends # {}
        /\ T[q].who = level
        /\ \A x \in (p+1)..(q-1) : T[x].depth >= d
        /\ Cardinality(own) = 2 * Cardinality(cells)
        /\ p + 1 \in own /\ q - 1 \in own
        /\ \A x \in own :
              IF Rank(own, x) % 2 = 1
              THEN /\ T[x].kind = "try"
                   /\ T[x].move = Nth(cells, (Rank(own, x) + 1) \div 2) + 1
                   /\ \E j \in Children(C, i) : C[j].at = x
              ELSE /\ T[x].kind = "score"
                   /\ T[x-1].depth = d + 1
                   /\ T[x-1].kind \in {"best", "terminal"}
                   /\ T[x].score = T[x-1].score
        /\ \A j \in Children(C, i) : C[j].at \in own

\* depth-first, left to right: the trace of every invocation
DepthFirstTrace(C, T, ai, hu) ==
    \A i \in 1..Len(C) :
        IF FirstLineSymbol(C[i].board) # None \/ NumEmpty(C[i].board) = 0
        THEN TerminalTrace(C, T, i)
        ELSE NodeTrace(C, T, i, ai, hu)

\* C14: no pruning and depth-first, left-to-right order.  During a
\* best_move call (and a minimax call) every invocation on a board that is
\* not terminal invokes minimax exactly once for each empty cell, in
\* ascending cell index, and the trace is printed in that order: the MAX/MIN
\* line of a node (with its depth, the symbol to move and the number of
\* empty cells) before the lines of its children, each child's Probando
\* movimiento line followed by the child's whole subtree and then its Score
\* recibido line before the next child starts, and the node's Mejor score
\* line after all its children.
C14_DepthFirst ==
    /\ pc = "done_best_move" =>
          /\ NoPruning(ret.calls, ai_player, hu_player)
          /\ DepthFirstTrace(ret.calls, ret.out, ai_player, hu_player)
          /\ OnePerEmptyCell(ret.calls,
                 {j \in 1..Len(ret.calls) : ret.calls[j].depth = 0},
                 pre_board, ai_player, FALSE)
          /\ \A j \in 1..Len(ret.calls) :
                 ret.calls[j].depth = 0 =>
                     ret.out[ret.calls[j].at].kind = "root_try"
    /\ pc = "done_minimax" =>
          /\ NoPruning(ret.calls, ai_player, hu_player)
          /\ print_tree =>
                 DepthFirstTrace(ret.calls, ret.out, ai_player, hu_player)
          /\ ret.calls[1].board = pre_board
          /\ ret.calls[1].depth = depth
          /\ SubtreeEnd(ret.calls, 1) = Len(ret.calls)

\* a traced minimax call on a board with two empty cells that has two
\* children, the first of which has a child of its own, so that the second
\* child starts after a whole subtree
C14_Witness ==
    /\ pc = "done_minimax"
    /\ print_tree
    /\ NumEmpty(pre_board) = 2
    /\ ret.error = "none"
    /\ Cardinality(Children(ret.calls, 1)) = 2
    /\ Children(ret.calls, Least(Children(ret.calls, 1))) # {}
    /\ Len(ret.out) > 12

----------------------------------------------------------------------------
(* Properties of the game loop, under Spec *)

\* C15: whenever the game loop invokes best_move it is the AI's turn and the
\* game is not over: state is 'playing', hu_turn is False, check_winner of
\* the board passed is None and the board has an empty cell.
C15_CalledOnAITurn ==
    invoked.made =>
        /\ invoked.state = "playing"
        /\ ~invoked.hu_turn
        /\ check_winner(invoked.board) = None
        /\ NumEmpty(invoked.board) >= 1

\* the timer event made the AI answer, as O, on a board with two empty
\* cells, and the game goes on
C15_Witness ==
    /\ invoked.made
    /\ ai_player = "O"
    /\ NumEmpty(invoked.board) = 2
    /\ state = "playing"
    /\ hu_turn

\* the number of cells of b that hold p
Count(b, p) == Cardinality({i \in Cells : b[i] = p})

\* the step leaves the board as it is
BoardKept == board' = board

\* the step is start_game: the board is reset to nine empty cells, with the
\* AI's first X on it when the AI opens
BoardReset ==
    /\ state = "menu"
    /\ Count(board', "O") = 0
    /\ Count(board', "X") <= 1

\* the step places one mark in an empty cell and changes no other cell; the
\* mark is X when the two symbols have as many marks and O otherwise (the
\* symbol that did not place the previous mark), and it is the symbol of the
\* player whose turn it is
OneMarkInTurn ==
    \E i \in Cells :
        /\ board[i] = " "
        /\ board' = [board EXCEPT ![i] = board'[i]]
        /\ board'[i] = (IF Count(board, "X") = Count(board, "O")
                        THEN "X" ELSE "O")
        /\ board'[i] = (IF hu_turn THEN hu_player ELSE ai_player)

\* C18: turn alternation.  In every reachable state the number of X marks
\* minus the number of O marks is 0 or 1, and every step that changes the
\* board either is start_game or places a single mark, by the player who
\* did not place the previous one.
C18_TurnAlternation ==
    [][/\ Count(board', "X") - Count(board', "O") \in {0, 1}
       /\ BoardKept \/ BoardReset \/ OneMarkInTurn]_vars

\* a game the AI opened as X: it has just answered the human's first O with
\* its second X, and a timer event that came too late is still queued
C18_Witness ==
    /\ state = "playing"
    /\ ai_player = "X"
    /\ hu_turn
    /\ invoked.made
    /\ Count(board, "X") = 2
    /\ Count(board, "O") = 1
    /\ pending > 0

\* the step is start_game (from the menu into a game)
StartGame == state = "menu" /\ state' = "playing"

\* C19: game-state consistency.  After every handled event, state
\* 'game_over' implies that winner is check_winner(board) and is X, O or
\* 'Tie'; state 'playing' implies that winner is None and check_winner(board)
\* is None; and in state 'game_over' or 'menu' no event changes a cell of the
\* board until start_game resets it (to nine empty cells, on which the AI
\* places its first mark at once when it opens).
C19_StateConsistent ==
    [][/\ state' = "game_over" =>
              (winner' = check_winner(board') /\ winner' \in {"X", "O", "Tie"})
       /\ state' = "playing" =>
              (winner' = None /\ check_winner(board') = None)
       /\ (state \in {"game_over", "menu"} /\ ~StartGame) => board' = board
       /\ StartGame =>
              \/ hu_player' = "X" /\ board' = EmptyBoard
              \/ /\ ai_player' = "X"
                 /\ \E i \in Cells : board' = [EmptyBoard EXCEPT ![i] = "X"]
      ]_vars

\* back in the menu after a game the AI won: the board and the winner of
\* that game are still there
C19_Witness ==
    /\ state = "menu"
    /\ winner = ai_player
    /\ winner = check_winner(board)
    /\ NumEmpty(board) < 9
    /\ button_rect

----------------------------------------------------------------------------
(* Properties of the game loop, under SpecLive *)

\* C20: every game ends.  With the human clicking an empty cell whenever it
\* is their turn and every armed timer event delivered, a game that is being
\* played eventually reaches state 'game_over'; and a game never sits in
\* 'playing' with hu_turn False and no AI move pending (no armed timer and
\* no queued USEREVENT), nor in 'playing' with all nine cells marked.
C20_GameEnds ==
    /\ [](state = "playing" /\ ~hu_turn => (timer \/ pending > 0))
    /\ [](state = "playing" => NumEmpty(board) >= 1)
    /\ (state = "playing") ~> (state = "game_over")

\* a game played to the ninth mark has ended in a tie, with no timer event
\* left
C20_Witness ==
    /\ state = "game_over"
    /\ winner = "Tie"
    /\ NumEmpty(board) = 0
    /\ ~timer
    /\ pending = 0

----------------------------------------------------------------------------
(* Properties of a failing search, under SpecFailure *)

\* the kinds of the lines minimax prints
MinimaxLines == {"terminal", "node", "try", "score", "best"}

\* C16: if a minimax call fails partway through a search (one of its trace
\* prints raises), every mark the search has written is reset to ' ' before
\* the exception reaches the caller: the caller's board equals its value
\* before the call.
C16_RestoredOnFailure ==
    (pc = "done_best_move" /\ ret.error = "raised"
        /\ ret.raised_in \in MinimaxLines) => board = pre_board
====
